---- MODULE Spec2Model ----
(***************************************************************************)
(* Model of the chatterbox message API (server/app.py, server/models.py): *)
(* one `messages` table and the four request handlers over it.            *)
(*                                                                         *)
(* The store is the table: a function from the ids of the persisted rows  *)
(* to their columns.  The clock `now` is the UTC wall clock, read by the  *)
(* column defaults; it never goes backwards.  `request` and `response`    *)
(* record the last request handled and the answer it received.            *)
(***************************************************************************)
EXTENDS Naturals, Sequences, FiniteSets

VARIABLES store, now, request, response, usedIds

vars == <<store, now, request, response, usedIds>>

\* ---- bounds -------------------------------------------------------------
MaxId == 2
MaxTime == 2

\* ---- JSON values --------------------------------------------------------
\* A key that the payload does not hold, and the JSON null (Python None).
Absent == "<absent>"
Null == "<null>"
ValueError == "<ValueError>"

Bodies == {"a", "b"}
Usernames == {"u"}
BodyValues == Bodies \cup {"", Null, Absent}
UsernameValues == Usernames \cup {Null, Absent}

\* request.get_json(): None, or a dict of which the handlers read two keys.
NoPayload == [isNull |-> TRUE, body |-> Absent, username |-> Absent]
Payloads == {NoPayload} \cup
            [isNull : {FALSE}, body : BodyValues, username : UsernameValues]
PatchPayloads == {p \in Payloads : p.username = Absent}

\* Python truthiness of the parsed payload: None and {} are falsy.
Truthy(data) == ~data.isNull /\ (data.body # Absent \/ data.username # Absent)

\* ---- models.py ----------------------------------------------------------
\* Message.validate_body: raises ValueError on a falsy body.
validate_body_null_only(body) == IF body = Null THEN ValueError ELSE body

validate_body(body) == IF body \in {Null, ""} THEN ValueError ELSE body

\* Message.id: INTEGER PRIMARY KEY on SQLite without AUTOINCREMENT; a new
\* row receives one more than the largest id now in the table.
Max(S) == CHOOSE x \in S : \A y \in S : y <= x

next_id(st) == IF DOMAIN st = {} THEN 1 ELSE Max(DOMAIN st) + 1

\* The row an INSERT writes: created_at and updated_at each come from their
\* own default callable, evaluated in column order (t1 then t2).
new_row(body, username, t1, t2) ==
    [body |-> body, username |-> username, created_at |-> t1, updated_at |-> t2]

\* The row an UPDATE of body writes: onupdate refreshes updated_at.
update_row_touch_created(row, body, t) ==
    [row EXCEPT !.body = body, !.created_at = t, !.updated_at = t]

update_row(row, body, t) == [row EXCEPT !.body = body, !.updated_at = t]

\* ---- app.py: serialization ----------------------------------------------
isoformat(t) == [iso |-> t]

message_to_dict(id, row) ==
    [id |-> id, body |-> row.body, username |-> row.username,
     created_at |-> isoformat(row.created_at),
     updated_at |-> isoformat(row.updated_at)]

\* make_response(...): status, shape of the body, and whether the answer
\* was produced by the handler or by an exception leaving it.
Resp(status, kind, msgs, text) ==
    [status |-> status, kind |-> kind, msgs |-> msgs, text |-> text,
     escaped |-> FALSE]

Escaped(text) ==
    [status |-> 500, kind |-> "html", msgs |-> <<>>, text |-> text,
     escaped |-> TRUE]

Result(st, resp) == [store |-> st, response |-> resp]

\* ---- app.py: GET /messages ----------------------------------------------
\* Message.query.order_by(Message.created_at).all(): every row once,
\* created_at ascending; the query names no second sort key, so rows of
\* equal created_at come in any order.
Orderings(st) ==
    LET n == Cardinality(DOMAIN st)
    IN {s \in [1..n -> DOMAIN st] : \A i, j \in 1..n : i # j => s[i] # s[j]}

order_by_any(st) == Orderings(st)

order_by_created_at(st) ==
    {s \in Orderings(st) :
        \A i, j \in 1..Len(s) :
            i < j => st[s[i]].created_at <= st[s[j]].created_at}

get_messages(st, order) ==
    Result(st, Resp(200, "list",
                    [i \in 1..Len(order) |-> message_to_dict(order[i], st[order[i]])],
                    ""))

\* ---- app.py: POST /messages ---------------------------------------------
post_message(st, t1, t2, data, dbFails) ==
    IF ~Truthy(data) \/ data.body = Absent \/ data.username = Absent
    THEN Result(st, Resp(400, "errors", <<>>,
                         "Missing body or username in request data."))
    ELSE IF validate_body(data.body) = ValueError
    THEN Result(st, Resp(400, "errors", <<>>, "Message body cannot be empty."))
    ELSE IF data.username = Null \/ dbFails
    \* NOT NULL constraint on username, or any other failure of the commit
    THEN Result(st, Resp(500, "errors", <<>>,
                         "Could not process the message creation."))
    ELSE LET id == next_id(st)
             row == new_row(validate_body(data.body), data.username, t1, t2)
             st2 == [i \in DOMAIN st \cup {id} |-> IF i = id THEN row ELSE st[i]]
         IN Result(st2, Resp(201, "message", <<message_to_dict(id, row)>>, ""))

\* ---- app.py: PATCH /messages/<id> ---------------------------------------
patch_message_payload_first(st, t, id, data, dbFails) ==
    IF data.isNull
    THEN Result(st, Escaped("TypeError"))
    ELSE IF data.body = Absent
    THEN Result(st, Resp(400, "errors", <<>>, "Missing body in update request."))
    ELSE IF id \notin DOMAIN st
    THEN Result(st, Resp(404, "error", <<>>, "Message not found"))
    ELSE IF validate_body(data.body) = ValueError
    THEN Result(st, Resp(400, "errors", <<>>, "Message body cannot be empty."))
    ELSE IF data.body = st[id].body
    THEN Result(st, Resp(202, "message", <<message_to_dict(id, st[id])>>, ""))
    ELSE IF dbFails
    THEN Result(st, Resp(500, "errors", <<>>, "Could not update the message."))
    ELSE LET row == update_row(st[id], data.body, t)
         IN Result([st EXCEPT ![id] = row],
                   Resp(202, "message", <<message_to_dict(id, row)>>, ""))

patch_message(st, t, id, data, dbFails) ==
    IF id \notin DOMAIN st
    THEN Result(st, Resp(404, "error", <<>>, "Message not found"))
    ELSE IF data.isNull
    \* 'body' in None raises TypeError outside the try block
    THEN Result(st, Escaped("TypeError"))
    ELSE IF data.body = Absent
    THEN Result(st, Resp(400, "errors", <<>>, "Missing body in update request."))
    ELSE IF validate_body(data.body) = ValueError
    THEN Result(st, Resp(400, "errors", <<>>, "Message body cannot be empty."))
    ELSE IF data.body = st[id].body
    \* no net change of the attribute: the flush emits no UPDATE, so
    \* onupdate does not run and nothing is written
    THEN Result(st, Resp(202, "message", <<message_to_dict(id, st[id])>>, ""))
    ELSE IF dbFails
    THEN Result(st, Resp(500, "errors", <<>>, "Could not update the message."))
    ELSE LET row == update_row(st[id], validate_body(data.body), t)
         IN Result([st EXCEPT ![id] = row],
                   Resp(202, "message", <<message_to_dict(id, row)>>, ""))

\* ---- app.py: DELETE /messages/<id> --------------------------------------
delete_message_keep_row(st, id, dbFails) ==
    IF id \notin DOMAIN st
    THEN Result(st, Resp(404, "error", <<>>, "Message not found"))
    ELSE IF dbFails
    THEN Result(st, Escaped("SQLAlchemyError"))
    ELSE Result(st, Resp(204, "empty", <<>>, ""))

delete_message(st, id, dbFails) ==
    IF id \notin DOMAIN st
    THEN Result(st, Resp(404, "error", <<>>, "Message not found"))
    ELSE IF dbFails
    \* the commit is not inside a try block
    THEN Result(st, Escaped("SQLAlchemyError"))
    ELSE Result([i \in DOMAIN st \ {id} |-> st[i]], Resp(204, "empty", <<>>, ""))

\* ---- state machine ------------------------------------------------------
Req(method, id, data, dbFails) ==
    [method |-> method, id |-> id, data |-> data, dbFails |-> dbFails]

Init ==
    /\ store = <<>>
    /\ now = 0
    /\ request = Req("NONE", 0, NoPayload, FALSE)
    /\ response = Resp(0, "empty", <<>>, "")
    /\ usedIds = {}

\* Time passes between requests.
Tick ==
    /\ now < MaxTime
    /\ now' = now + 1
    /\ UNCHANGED <<store, request, response, usedIds>>

GetMessages ==
    \E order \in order_by_created_at(store) :
        LET r == get_messages(store, order)
        IN /\ request' = Req("GET", 0, NoPayload, FALSE)
           /\ response' = r.response
           /\ UNCHANGED <<store, now, usedIds>>

\* The two timestamp defaults read the clock one after the other; the clock
\* may advance between the two reads.
PostMessage ==
    \E data \in Payloads, dbFails \in BOOLEAN, t2 \in {now, now + 1} :
        LET r == post_message(store, now, t2, data, dbFails)
        IN /\ t2 <= MaxTime
           /\ r.response.status = 201 => next_id(store) <= MaxId
           /\ r.response.status # 201 => t2 = now
           /\ request' = Req("POST", 0, data, dbFails)
           /\ response' = r.response
           /\ store' = r.store
           /\ now' = t2
           /\ usedIds' = usedIds \cup DOMAIN r.store

PatchMessage ==
    \E id \in 1..(MaxId + 1), data \in PatchPayloads, dbFails \in BOOLEAN :
        LET r == patch_message(store, now, id, data, dbFails)
        IN /\ request' = Req("PATCH", id, data, dbFails)
           /\ response' = r.response
           /\ store' = r.store
           /\ UNCHANGED <<now, usedIds>>

DeleteMessage ==
    \E id \in 1..(MaxId + 1), dbFails \in BOOLEAN :
        LET r == delete_message(store, id, dbFails)
        IN /\ request' = Req("DELETE", id, NoPayload, dbFails)
           /\ response' = r.response
           /\ store' = r.store
           /\ UNCHANGED <<now, usedIds>>

Next == Tick \/ GetMessages \/ PostMessage \/ PatchMessage \/ DeleteMessage

Spec == Init /\ [][Next]_vars

TypeOK ==
    /\ DOMAIN store \subseteq 1..MaxId
    /\ \A id \in DOMAIN store :
          /\ store[id].username \in Usernames
          /\ store[id].created_at \in 0..MaxTime
          /\ store[id].updated_at \in 0..MaxTime
    /\ now \in 0..MaxTime
    /\ usedIds \subseteq 1..MaxId

\* ---- helpers for the properties -----------------------------------------
IsPost == request.method = "POST"
IsPatch == request.method = "PATCH"
IsDelete == request.method = "DELETE"
IsGet == request.method = "GET"

\* The step handles a request of method m (it is not the passing of time).
Handles(m) == request'.method = m /\ ~Tick

ValidPost(data) ==
    ~data.isNull /\ data.body \in Bodies /\ data.username \in Usernames

\* C1: a POST with a non-empty body and a present username, absent a
\* persistence failure, is answered 201 and the created record has
\* created_at equal to updated_at, in the response and in the stored row.
C1_CreatedEqualsUpdated ==
    (IsPost /\ ValidPost(request.data) /\ ~request.dbFails) =>
        /\ response.status = 201
        /\ Len(response.msgs) = 1
        /\ response.msgs[1].created_at = response.msgs[1].updated_at
        /\ response.msgs[1].id \in DOMAIN store
        /\ store[response.msgs[1].id].created_at
             = store[response.msgs[1].id].updated_at

\* C2: a POST whose payload is missing, whose body is absent, null or
\* empty, or whose username is absent or null is answered 400 and leaves
\* the set of stored messages as it was.
C2_InvalidPostIs400 ==
    [][(Handles("POST") /\
        (\/ request'.data.isNull
         \/ request'.data.body \in {Absent, Null, ""}
         \/ request'.data.username \in {Absent, Null}))
       => (response'.status = 400 /\ store' = store)]_vars

\* C3: a newly created message never receives an id that an earlier
\* message, stored or since deleted, has had.
C3_IdNeverReused ==
    [][(Handles("POST") /\ response'.status = 201)
       => (\A i \in 1..Len(response'.msgs) : response'.msgs[i].id \notin usedIds)]_vars

\* C4: every persisted message has a non-empty, non-null body, and a POST
\* or PATCH carrying an empty or null body is rejected without any write:
\* with 400 once it reaches validation (POST holding both keys, PATCH on an
\* existing id).
PersistedBodiesNonEmpty ==
    \A id \in DOMAIN store : store[id].body \notin {"", Null, Absent, ValueError}

EmptyBodyRejected ==
    ((Handles("POST") \/ Handles("PATCH")) /\ ~request'.data.isNull
     /\ request'.data.body \in {"", Null})
    => /\ store' = store
       /\ response'.status \in {400, 404}
       /\ (Handles("POST") /\ request'.data.username # Absent)
             => response'.status = 400
       /\ (Handles("PATCH") /\ request'.id \in DOMAIN store)
             => response'.status = 400

C4_BodyNeverEmpty == []PersistedBodiesNonEmpty /\ [][EmptyBodyRejected]_vars

C4_Witness ==
    /\ IsPatch /\ request.id \in DOMAIN store
    /\ request.data.body \in {"", Null}
    /\ response.status = 400
    /\ response.text = "Message body cannot be empty."

\* C5: a PATCH on an existing id with a payload holding a non-empty body,
\* absent a persistence failure, returns 202 with the record, sets the
\* record's body to the new value, leaves its id, username and created_at
\* and every other record unchanged, and its updated_at does not decrease.
C5_PatchFrame ==
    [][(Handles("PATCH") /\ request'.id \in DOMAIN store
        /\ ~request'.data.isNull /\ request'.data.body \in Bodies
        /\ ~request'.dbFails)
       => /\ response'.status = 202
          /\ DOMAIN store' = DOMAIN store
          /\ store'[request'.id].body = request'.data.body
          /\ store'[request'.id].username = store[request'.id].username
          /\ store'[request'.id].created_at = store[request'.id].created_at
          /\ store'[request'.id].updated_at >= store[request'.id].updated_at
          /\ \A i \in DOMAIN store \ {request'.id} : store'[i] = store[i]
          /\ response'.msgs = <<message_to_dict(request'.id, store'[request'.id])>>]_vars

C5_Witness ==
    /\ IsPatch /\ response.status = 202
    /\ Cardinality(DOMAIN store) >= 2
    /\ request.id \in DOMAIN store
    /\ store[request.id].body = request.data.body
    /\ store[request.id].updated_at = now
    /\ store[request.id].updated_at > store[request.id].created_at

\* C6: every PATCH answered 202 leaves the record's updated_at equal to the
\* current time of that request, also when the new body equals the stored
\* one.
C6_UpdateRefreshesUpdatedAt ==
    [][(Handles("PATCH") /\ response'.status = 202)
       => (request'.id \in DOMAIN store'
           /\ store'[request'.id].updated_at = now')]_vars

\* C7: PATCH checks in a fixed order: 404 for an id that is not stored,
\* whatever the payload; for a stored id, 400 when the payload object holds
\* no body field; then 400 when the new body fails validation.  In each of
\* these cases the store is unchanged.
C7_PatchCheckOrder ==
    [][(Handles("PATCH")) =>
        /\ (request'.id \notin DOMAIN store)
             => (response'.status = 404 /\ response'.kind = "error"
                 /\ store' = store)
        /\ (request'.id \in DOMAIN store /\ ~request'.data.isNull
            /\ request'.data.body = Absent)
             => (response'.status = 400
                 /\ response'.text = "Missing body in update request."
                 /\ store' = store)
        /\ (request'.id \in DOMAIN store /\ ~request'.data.isNull
            /\ request'.data.body \in {"", Null})
             => (response'.status = 400
                 /\ response'.text = "Message body cannot be empty."
                 /\ store' = store)]_vars

C7_Witness ==
    /\ IsPatch /\ request.id \in DOMAIN store
    /\ ~request.data.isNull /\ request.data.body = Absent
    /\ response.status = 400
    /\ response.text = "Missing body in update request."

\* C8: a DELETE on an existing id, absent a persistence failure, returns
\* 204 with an empty body and removes exactly that record; from then on a
\* GET lists only stored ids and a DELETE of an id that is not stored
\* returns 404, and only a POST answered 201 with that id brings an id back.
C8_DeleteRemoves ==
    [][/\ (Handles("DELETE") /\ request'.id \in DOMAIN store
           /\ ~request'.dbFails)
            => /\ response'.status = 204
               /\ response'.kind = "empty" /\ response'.msgs = <<>>
               /\ DOMAIN store' = DOMAIN store \ {request'.id}
               /\ \A i \in DOMAIN store' : store'[i] = store[i]
       /\ (Handles("DELETE") /\ request'.id \notin DOMAIN store)
            => (response'.status = 404 /\ store' = store)
       /\ (Handles("GET"))
            => (store' = store /\
                \A i \in 1..Len(response'.msgs) :
                    response'.msgs[i].id \in DOMAIN store)
       /\ \A id \in DOMAIN store' \ DOMAIN store :
            /\ Handles("POST") /\ response'.status = 201
            /\ response'.msgs[1].id = id]_vars

C8_Witness ==
    /\ IsDelete /\ response.status = 204
    /\ request.id \notin DOMAIN store
    /\ request.id \in usedIds
    /\ DOMAIN store # {}

\* C9: GET /messages returns 200 with every stored record exactly once,
\* ordered by created_at ascending; an empty store yields an empty array.
ListsEveryRecordOnce ==
    /\ response.status = 200 /\ response.kind = "list"
    /\ Len(response.msgs) = Cardinality(DOMAIN store)
    /\ \A id \in DOMAIN store :
          \E i \in 1..Len(response.msgs) :
              response.msgs[i] = message_to_dict(id, store[id])
    /\ \A i, j \in 1..Len(response.msgs) :
          i < j => response.msgs[i].created_at.iso <= response.msgs[j].created_at.iso

C9_ListOrdered == IsGet => ListsEveryRecordOnce

C9_Witness ==
    /\ IsGet /\ response.status = 200
    /\ Len(response.msgs) = 2
    /\ response.msgs[1].created_at.iso < response.msgs[2].created_at.iso
    /\ response.msgs[1].id # response.msgs[2].id

\* C9 as stated: in addition, records of equal created_at are ordered by id
\* ascending.
C9_TiesByIdAscending ==
    IsGet =>
        /\ ListsEveryRecordOnce
        /\ \A i, j \in 1..Len(response.msgs) :
              (i < j /\ response.msgs[i].created_at = response.msgs[j].created_at)
                 => response.msgs[i].id < response.msgs[j].id

\* C10: every request that is not answered 2xx is answered by the handler
\* itself, with a JSON error body and status 400, 404 or 500; no exception
\* leaves a handler.
C10_ErrorsHandled ==
    (request.method # "NONE") =>
        /\ ~response.escaped
        /\ response.status \notin {200, 201, 202, 204}
             => (response.status \in {400, 404, 500}
                 /\ response.kind \in {"errors", "error"})
====
